---------------------------- MODULE Spec2Model ----------------------------
(***************************************************************************)
(* A model of the ODE solver application: the numerical engine of          *)
(* src/src/ODE_solver.py (class ODE, class Trajectory) and the Dash        *)
(* callbacks of src/app.py that drive it.                                  *)
(*                                                                         *)
(* Three specifications share the module:                                  *)
(*   SolveSpec  ODE.solve executed statement by statement on one           *)
(*              trajectory, with the arithmetic of the interpreter         *)
(*              (IEEE-754 binary64) and, beside it, exact rational         *)
(*              arithmetic, the idealisation the specification's worked    *)
(*              example is stated in;                                      *)
(*   Spec       one browser session: user events and the callbacks each    *)
(*              event triggers, run in any order;                          *)
(*   SpecCap    a session of clicks on Add with one ODE, one method and    *)
(*              one final time, deep enough to fill the registry.          *)
(***************************************************************************)
EXTENDS Integers, Sequences, FiniteSets, TLC

VARIABLES
    f,            \* ode.f: "None", or the label of the lambda choose_ode stored
    arith,        \* "binary64" (the interpreter) or "exact" (the idealisation)
    trajectory,   \* SolveSpec: the Trajectory object ODE.solve works on
    tf,           \* SolveSpec: the argument tf of ODE.solve
    t,            \* SolveSpec: the local t of ODE.solve
    xi,           \* SolveSpec: the local xi of ODE.solve
    x_ls,         \* SolveSpec: the local x_ls of ODE.solve
    pc,           \* SolveSpec: "solve", "while", "done" or "raised"
    n,            \* ode.n
    trajectories, \* ode.trajectories
    fig,          \* ode.fig: the number of trajectory traces in the figure
    message,      \* the children of 'container-button'
    choice,       \* the value of the dropdown 'choose-ode'
    slider,       \* the value of 'sliderinput'
    event,        \* the user event being handled, with the inputs it carries
    pending,      \* the callbacks of that event still to run
    rerender,     \* the delete buttons were laid out again by this event
    stored        \* the storing callback of this event appended a trajectory

solveVars == <<arith, trajectory, tf, t, xi, x_ls, pc>>

sessionVars ==
    <<n, trajectories, fig, message, choice, slider, event, pending, rerender,
      stored>>

vars == <<f, solveVars, sessionVars>>

(***************************************************************************)
(* Natural numbers of any size: little-endian sequences of limbs in        *)
(* 0..BASE-1 with no leading zero limb; zero is <<>>.  Python integers are *)
(* unbounded and a binary64 significand has 53 bits, so the arithmetic of  *)
(* the code does not fit 32-bit integers.                                  *)
(***************************************************************************)
BASE == 32768

LimbBits == 15

Min(x, y) == IF x < y THEN x ELSE y

Max(x, y) == IF x < y THEN y ELSE x

\* Limb i of a, 0 above its top.
Limb(a, i) == IF i <= Len(a) THEN a[i] ELSE 0

\* The index of the top nonzero limb of a, 0 when there is none.
BTop(a) ==
    IF \A i \in 1..Len(a) : a[i] = 0 THEN 0
    ELSE CHOOSE i \in 1..Len(a) : a[i] # 0 /\ \A j \in (i + 1)..Len(a) : a[j] = 0

BTrim(a) == SubSeq(a, 1, BTop(a))

RECURSIVE BFromInt(_)
BFromInt(k) == IF k = 0 THEN <<>> ELSE <<k % BASE>> \o BFromInt(k \div BASE)

\* The carry into limb i of the column sums s, each at most 2 * BASE - 2:
\* a column below overflows and every column between passes the carry on.
Carry(s, i) ==
    \E j \in 1..(i - 1) :
        s[j] >= BASE /\ \A m \in (j + 1)..(i - 1) : s[m] = BASE - 1

CarryLimb(s, i) == (Limb(s, i) + (IF Carry(s, i) THEN 1 ELSE 0)) % BASE

BCarried(s) == BTrim(<<>> \o [i \in 1..(Len(s) + 1) |-> CarryLimb(s, i)])

BAdd(a, b) ==
    BCarried(<<>> \o [i \in 1..Max(Len(a), Len(b)) |-> Limb(a, i) + Limb(b, i)])

BCmpAt(a, b, i) == IF a[i] < b[i] THEN -1 ELSE 1

\* -1, 0 or 1 as a < b, a = b, a > b: the top limb that differs decides.
BCmp(a, b) ==
    IF Len(a) < Len(b) THEN -1
    ELSE IF Len(a) > Len(b) THEN 1
    ELSE IF a = b THEN 0
    ELSE BCmpAt(a, b, CHOOSE i \in 1..Len(a) :
                          a[i] # b[i] /\ \A j \in (i + 1)..Len(a) : a[j] = b[j])

\* The borrow into limb i of the column differences d.
Borrow(d, i) ==
    \E j \in 1..(i - 1) : d[j] < 0 /\ \A m \in (j + 1)..(i - 1) : d[m] = 0

BorrowLimb(d, i) == (d[i] - (IF Borrow(d, i) THEN 1 ELSE 0) + BASE) % BASE

BBorrowed(d) == BTrim(<<>> \o [i \in 1..Len(d) |-> BorrowLimb(d, i)])

\* a - b, for a >= b.
BSub(a, b) == BBorrowed(<<>> \o [i \in 1..Len(a) |-> a[i] - Limb(b, i)])

\* Column i of a * k: the low half of a[i] * k and the high half of
\* a[i - 1] * k.
MulColumn(a, k, i) ==
    ((Limb(a, i) * k) % BASE) + (IF i > 1 THEN (a[i - 1] * k) \div BASE ELSE 0)

\* a * k, for a limb k.
BMulSmall(a, k) ==
    IF k = 0 THEN <<>>
    ELSE BCarried(<<>> \o [i \in 1..(Len(a) + 1) |-> MulColumn(a, k, i)])

BShiftLimb(a) == IF a = <<>> THEN <<>> ELSE <<0>> \o a

\* 2^0 .. 2^15, the powers of two up to BASE.
Pow2Table ==
    <<1, 2, 4, 8, 16, 32, 64, 128, 256, 512, 1024, 2048, 4096, 8192, 16384,
      32768>>

IntPow2(k) == Pow2Table[k + 1]

\* The number of binary digits of a limb.
IntBitLen(k) == Cardinality({i \in 0..(LimbBits - 1) : IntPow2(i) <= k})

\* The number of trailing zero binary digits of a limb k > 0.
IntTz(k) == Cardinality({i \in 1..(LimbBits - 1) : k % IntPow2(i) = 0})

\* 2^k.
BPow2(k) == [i \in 1..(k \div LimbBits) |-> 0] \o <<IntPow2(k % LimbBits)>>

\* The number of binary digits of a.
BBitLen(a) ==
    IF a = <<>> THEN 0 ELSE LimbBits * (Len(a) - 1) + IntBitLen(a[Len(a)])

BIsPow2(a) == a # <<>> /\ a = BPow2(BBitLen(a) - 1)

\* Limb i of a * 2^(LimbBits * w + s), for s < LimbBits.
ShiftLeftLimb(a, w, s, i) ==
    IF i <= w THEN 0
    ELSE ((Limb(a, i - w) % IntPow2(LimbBits - s)) * IntPow2(s))
         + (IF i - w > 1 THEN a[i - w - 1] \div IntPow2(LimbBits - s) ELSE 0)

BShiftLeftBy(a, w, s) ==
    BTrim(<<>> \o [i \in 1..(Len(a) + w + 1) |-> ShiftLeftLimb(a, w, s, i)])

\* a * 2^k.
BShiftLeft(a, k) == BShiftLeftBy(a, k \div LimbBits, k % LimbBits)

\* Limb i of a div 2^(LimbBits * w + s), for s < LimbBits.
ShiftRightLimb(a, w, s, i) ==
    (a[i + w] \div IntPow2(s))
    + ((Limb(a, i + w + 1) % IntPow2(s)) * IntPow2(LimbBits - s))

BShiftRightBy(a, w, s) ==
    <<BTrim(<<>> \o [i \in 1..(Len(a) - w) |-> ShiftRightLimb(a, w, s, i)]),
      BTrim(<<>> \o [i \in 1..Min(w + 1, Len(a)) |->
                        IF i <= w THEN a[i] ELSE a[i] % IntPow2(s)])>>

\* <<a div 2^k, a mod 2^k>>.
BShiftRight(a, k) == BShiftRightBy(a, k \div LimbBits, k % LimbBits)

\* The number of trailing zero binary digits of a > 0.
BTzAt(a, i) == LimbBits * (i - 1) + IntTz(a[i])

BTz(a) ==
    BTzAt(a, CHOOSE i \in 1..Len(a) : a[i] # 0 /\ \A j \in 1..(i - 1) : a[j] = 0)

RECURSIVE BMulLimbs(_, _)
BMulLimbs(a, b) ==
    IF b = <<>> THEN <<>>
    ELSE BAdd(BMulSmall(a, Head(b)), BShiftLimb(BMulLimbs(a, Tail(b))))

BMul(a, b) ==
    IF a = <<>> \/ b = <<>> THEN <<>>
    ELSE IF BIsPow2(b) THEN BShiftLeft(a, BBitLen(b) - 1)
    ELSE IF BIsPow2(a) THEN BShiftLeft(b, BBitLen(a) - 1)
    ELSE BMulLimbs(a, b)

\* The quotient limb of r by b, for r < b * BASE and the top limb of b at
\* least BASE / 2: the estimate q from the top limbs is at most two too large.
BDigitFix(r, b, q) ==
    IF BCmp(BMulSmall(b, q), r) <= 0 THEN q
    ELSE IF BCmp(BMulSmall(b, q - 1), r) <= 0 THEN q - 1
    ELSE q - 2

BTop2(r, len) ==
    IF Len(r) > len THEN r[len + 1] * BASE + r[len]
    ELSE IF Len(r) = len THEN r[len]
    ELSE 0

BDigit(r, b) == BDigitFix(r, b, Min(BTop2(r, Len(b)) \div b[Len(b)], BASE - 1))

\* Schoolbook long division by b > 0, from limb i of a down: r is the
\* remainder and qs the quotient of the limbs above.
RECURSIVE BDivLoop(_, _, _, _, _)
BDivEmit(a, b, i, r, qs, q) ==
    BDivLoop(a, b, i - 1, BSub(r, BMulSmall(b, q)), <<q>> \o qs)

BDivStep(a, b, i, r, qs) ==
    IF BCmp(r, b) < 0 THEN BDivLoop(a, b, i - 1, r, <<0>> \o qs)
    ELSE BDivEmit(a, b, i, r, qs, BDigit(r, b))

BDivLoop(a, b, i, r, qs) ==
    IF i = 0 THEN <<BTrim(qs), r>>
    ELSE BDivStep(a, b, i, BTrim(<<a[i]>> \o r), qs)

\* The same by a single limb k > 0, the remainder kept as an integer.
RECURSIVE BDivSmallLoop(_, _, _, _, _)
BDivSmallLoop(a, k, i, r, qs) ==
    IF i = 0 THEN <<BTrim(qs), r>>
    ELSE BDivSmallLoop(a, k, i - 1, (r * BASE + a[i]) % k,
                       <<(r * BASE + a[i]) \div k>> \o qs)

BSmallResult(dm) == <<dm[1], BFromInt(dm[2])>>

\* Dividend and divisor scaled by d, which brings the top limb of the
\* divisor to BASE / 2 or more; the remainder is scaled back.
BDivUnscale(dm, d) == <<dm[1], BDivSmallLoop(dm[2], d, Len(dm[2]), 0, <<>>)[1]>>

\* The top Len(b) - 1 limbs of a are below b: the division starts under them.
BDivScaled(a, b, d) ==
    BDivUnscale(IF Len(a) < Len(b) THEN <<(<<>>), a>>
                ELSE BDivLoop(a, b, Len(a) - Len(b) + 1,
                              SubSeq(a, Len(a) - Len(b) + 2, Len(a)), <<>>),
                d)

\* <<a div b, a mod b>>, for b > 0.
BDivMod(a, b) ==
    IF Len(b) = 1 THEN BSmallResult(BDivSmallLoop(a, b[1], Len(a), 0, <<>>))
    ELSE BDivScaled(BMulSmall(a, BASE \div (b[Len(b)] + 1)),
                    BMulSmall(b, BASE \div (b[Len(b)] + 1)),
                    BASE \div (b[Len(b)] + 1))

RECURSIVE BGcd(_, _)
BGcd(a, b) == IF b = <<>> THEN a ELSE BGcd(b, BDivMod(a, b)[2])

BIsOdd(a) == a # <<>> /\ a[1] % 2 = 1


(***************************************************************************)
(* Numbers.  A Python number is modelled by the rational it denotes,       *)
(* [k |-> "num", neg, n, d] in lowest terms (n / d, negative when neg).    *)
(* Under arith = "binary64" every operation rounds its exact result to the *)
(* nearest double, ties to even, as CPython's float does; under            *)
(* arith = "exact" it keeps the exact result.  Doubles here stay far from  *)
(* the overflow and subnormal ranges, which are not modelled.              *)
(* Two more kinds of value stand for doubles the model does not compute:   *)
(*   [k |-> "float"]        the result of np.cos, np.sin or a converged    *)
(*                          scipy fsolve;                                  *)
(*   [k |-> "unconverged"]  the last iterate of an fsolve that stopped     *)
(*                          without converging.                            *)
(* [k |-> "None"] is Python's None (an empty or invalid input field).      *)
(***************************************************************************)
Q(neg, num, den) ==
    [k |-> "num", neg |-> (neg /\ num # <<>>), n |-> num, d |-> den]

None == [k |-> "None"]

Opaque == [k |-> "float"]

Unconverged == [k |-> "unconverged"]

IsNum(v) == v.k = "num"

QReduce(q, g) == Q(q.neg, BDivMod(q.n, g)[1], BDivMod(q.d, g)[1])

\* q in lowest terms.
QExact(q) ==
    IF q.n = <<>> THEN Q(FALSE, <<>>, <<1>>) ELSE QReduce(q, BGcd(q.n, q.d))

QDyadicBy(neg, m, e, s) == Q(neg, BShiftRight(m, s)[1], BPow2(-e - s))

\* m * 2^e in lowest terms, for m > 0 and e < 0: the factors of two that m
\* and 2^-e share cancel.
QDyadic(neg, m, e) == QDyadicBy(neg, m, e, Min(BTz(m), -e))

QScaledEmit(dm, D) == <<dm[1], dm[2], D>>

QScaledBy(N, D) ==
    QScaledEmit(IF BIsPow2(D) THEN BShiftRight(N, BBitLen(D) - 1) ELSE BDivMod(N, D), D)

\* Floor and remainder of q / 2^e, with the divisor used: <<m, r, D>>.
QScaled(q, e) ==
    QScaledBy(IF e < 0 THEN BMul(q.n, BPow2(-e)) ELSE q.n,
              IF e > 0 THEN BMul(q.d, BPow2(e)) ELSE q.d)

\* m * 2^e as a number in lowest terms.
QFromBinary(neg, m, e) ==
    IF e >= 0 THEN Q(neg, BMul(m, BPow2(e)), <<1>>) ELSE QDyadic(neg, m, e)

\* Round to nearest, ties to even: s = <<m, r, D>>, c compares 2r with D.
QRoundUp(neg, s, e, c) ==
    QFromBinary(neg,
                IF c > 0 \/ (c = 0 /\ BIsOdd(s[1])) THEN BAdd(s[1], <<1>>) ELSE s[1],
                e)

QRoundAt(neg, s, e) == QRoundUp(neg, s, e, BCmp(BAdd(s[2], s[2]), s[3]))

\* s0 is q scaled by 2^e0, with 2^52 <= s0[1] < 2^54: one more halving
\* when the significand has 54 bits.
QRoundFrom(q, e0, s0) ==
    IF BBitLen(s0[1]) > 53 THEN QRoundAt(q.neg, QScaled(q, e0 + 1), e0 + 1)
    ELSE QRoundAt(q.neg, s0, e0)

QRoundExp(q, e0) == QRoundFrom(q, e0, QScaled(q, e0))

\* The double nearest to q: a 53-bit significand m and an exponent e with
\* 2^52 <= m < 2^53 before rounding.
QRound53(q) ==
    IF q.n = <<>> THEN Q(FALSE, <<>>, <<1>>)
    ELSE QRoundExp(q, BBitLen(q.n) - BBitLen(q.d) - 53)

Fix(ar, q) == IF ar = "binary64" THEN QRound53(q) ELSE QExact(q)

QNeg(a) == Q(~a.neg, a.n, a.d)

QAddSigned(aneg, bneg, x, y, d) ==
    IF aneg = bneg THEN Q(aneg, BAdd(x, y), d)
    ELSE IF BCmp(x, y) >= 0 THEN Q(aneg, BSub(x, y), d)
    ELSE Q(bneg, BSub(y, x), d)

\* Exact sum, not in lowest terms.
QAddRaw(a, b) ==
    QAddSigned(a.neg, b.neg, BMul(a.n, b.d), BMul(b.n, a.d), BMul(a.d, b.d))

QMulRaw(a, b) == Q(a.neg # b.neg, BMul(a.n, b.n), BMul(a.d, b.d))

\* For b # 0.
QDivRaw(a, b) == Q(a.neg # b.neg, BMul(a.n, b.d), BMul(a.d, b.n))

QSign(a) == IF a.n = <<>> THEN 0 ELSE IF a.neg THEN -1 ELSE 1

\* a < b: exact, as the comparison of two doubles is.
QLess(a, b) == QSign(QAddRaw(a, QNeg(b))) < 0

QEq(a, b) == QSign(QAddRaw(a, QNeg(b))) = 0

\* The integer k as a number.
QInt(k) == IF k < 0 THEN Q(TRUE, BFromInt(-k), <<1>>) ELSE Q(FALSE, BFromInt(k), <<1>>)

\* The decimal p[1] / p[2] a form field sends, read as the interpreter reads
\* it: json.loads gives the nearest double.
Lit(ar, p) == Fix(ar, QDivRaw(QInt(p[1]), QInt(p[2])))

RECURSIVE BToInt(_)
BToInt(a) == IF a = <<>> THEN 0 ELSE Head(a) + BASE * BToInt(Tail(a))

QCeilOf(neg, fl, exact) == IF neg THEN -fl ELSE IF exact THEN fl ELSE fl + 1

QCeilFrom(neg, dm) == QCeilOf(neg, BToInt(dm[1]), dm[2] = <<>>)

\* math.ceil of a number, as an integer of the model (small here).
QCeil(a) == QCeilFrom(a.neg, BDivMod(a.n, a.d))

(***************************************************************************)
(* The operators +, -, *, / of the code on values.  An operand that is not *)
(* a computed number makes the result a double the model does not compute. *)
(***************************************************************************)
VAdd(ar, a, b) == IF IsNum(a) /\ IsNum(b) THEN Fix(ar, QAddRaw(a, b)) ELSE Opaque

VSub(ar, a, b) == IF IsNum(a) /\ IsNum(b) THEN Fix(ar, QAddRaw(a, QNeg(b))) ELSE Opaque

VMul(ar, a, b) == IF IsNum(a) /\ IsNum(b) THEN Fix(ar, QMulRaw(a, b)) ELSE Opaque

VDiv(ar, a, b) == IF IsNum(a) /\ IsNum(b) THEN Fix(ar, QDivRaw(a, b)) ELSE Opaque

(***************************************************************************)
(* The right-hand sides choose_ode installs in ode.f, by label.  B and C   *)
(* are computed; A, D and E go through np.cos or np.sin, whose results the *)
(* model does not compute.                                                 *)
(***************************************************************************)
ODEChoices == {"A", "B", "C", "D", "E"}

F(ar, nf, tt, x) ==
    CASE nf = "B" -> VMul(ar, QInt(-1), x)
      [] nf = "C" -> VMul(ar, QInt(-5), x)
      [] OTHER    -> Opaque

\* Whether f(t, x) is linear in x: B, C, D (constant in x) and E are; A,
\* (x + 1) * cos(x * t), is not.
LinearInX(nf) == nf # "A"

Methods == {"Forward Euler", "Backward Euler", "Runge Kutta 2", "Runge Kutta 4"}

\* A forward Euler step with the sign of the increment wrong.
frwd_euler_backwards(ar, tt, h, x, nf) ==
    VSub(ar, x, VMul(ar, h, F(ar, nf, tt, x)))

\* ODE.frwd_euler: xi + h*f(t, xi).
frwd_euler(ar, tt, h, x, nf) == VAdd(ar, x, VMul(ar, h, F(ar, nf, tt, x)))

\* ODE.bkwrd_euler: fsolve(...)[0], the set of values it can return.  fsolve
\* is called without full_output, so all the code sees is the array of the
\* last iterate: the root to within xtol when the iteration converged, and
\* the point where it stopped (with a RuntimeWarning) when it did not.  For
\* a right-hand side linear in x the equation xip - (xi + h*f(t+h, xip)) = 0
\* is linear in xip and the iteration is taken to converge; for the
\* nonlinear one either outcome is possible.
bkwrd_euler(ar, tt, h, x, nf) ==
    IF LinearInX(nf) THEN {Opaque} ELSE {Opaque, Unconverged}

\* ODE.RK2: xip = xi + h*(1/2*k1 + 1/2*k2).
RK2_xip(ar, h, x, k1, k2, half) ==
    VAdd(ar, x, VMul(ar, h, VAdd(ar, VMul(ar, half, k1), VMul(ar, half, k2))))

\* ODE.RK2: k2 = f(t+h, xi+k1*h).
RK2_k2(ar, tt, h, x, nf, k1) ==
    RK2_xip(ar, h, x, k1,
            F(ar, nf, VAdd(ar, tt, h), VAdd(ar, x, VMul(ar, k1, h))),
            VDiv(ar, QInt(1), QInt(2)))

\* ODE.RK2: k1 = f(t, xi).
RK2(ar, tt, h, x, nf) == RK2_k2(ar, tt, h, x, nf, F(ar, nf, tt, x))

\* ODE.RK4: xip = xi + h * (1/6*k1 + 1/3*k2 + 1/3*k3 + 1/6*k4).
RK4_xip(ar, h, x, k1, k2, k3, k4, w6, w3) ==
    VAdd(ar, x,
         VMul(ar, h,
              VAdd(ar, VAdd(ar, VAdd(ar, VMul(ar, w6, k1), VMul(ar, w3, k2)),
                            VMul(ar, w3, k3)),
                   VMul(ar, w6, k4))))

\* ODE.RK4: k4 = f(t + h, xi + k3 * h).
RK4_k4(ar, tt, h, x, nf, k1, k2, k3) ==
    RK4_xip(ar, h, x, k1, k2, k3,
            F(ar, nf, VAdd(ar, tt, h), VAdd(ar, x, VMul(ar, k3, h))),
            VDiv(ar, QInt(1), QInt(6)), VDiv(ar, QInt(1), QInt(3)))

\* ODE.RK4: k3 = f(t + h / 2, xi + k2 * h / 2).
RK4_k3(ar, tt, h, x, nf, k1, k2) ==
    RK4_k4(ar, tt, h, x, nf, k1, k2,
           F(ar, nf, VAdd(ar, tt, VDiv(ar, h, QInt(2))),
             VAdd(ar, x, VDiv(ar, VMul(ar, k2, h), QInt(2)))))

\* ODE.RK4: k2 = f(t + h / 2, xi + k1 * h / 2).
RK4_k2(ar, tt, h, x, nf, k1) ==
    RK4_k3(ar, tt, h, x, nf, k1,
           F(ar, nf, VAdd(ar, tt, VDiv(ar, h, QInt(2))),
             VAdd(ar, x, VDiv(ar, VMul(ar, k1, h), QInt(2)))))

\* ODE.RK4: k1 = f(t, xi).
RK4(ar, tt, h, x, nf) == RK4_k2(ar, tt, h, x, nf, F(ar, nf, tt, x))

\* The if/elif chain of ODE.solve: the values the body can assign to xi.  A
\* method that is none of the four leaves xi as it is.
StepResults(ar, method, tt, h, x, nf) ==
    CASE method = "Forward Euler"  -> {frwd_euler(ar, tt, h, x, nf)}
      [] method = "Backward Euler" -> bkwrd_euler(ar, tt, h, x, nf)
      [] method = "Runge Kutta 2"  -> {RK2(ar, tt, h, x, nf)}
      [] method = "Runge Kutta 4"  -> {RK4(ar, tt, h, x, nf)}
      [] OTHER                     -> {x}

ArangeOf(ar, step, len) ==
    [i \in 1..len |-> VAdd(ar, QInt(0), VMul(ar, QInt(i - 1), step))]

\* np.arange(0, stop, step) for step # 0: ceil((stop - 0)/step) elements,
\* element i being 0 + i*step.
Arange(ar, stop, step) ==
    ArangeOf(ar, step, QCeil(VDiv(ar, VSub(ar, stop, QInt(0)), step)))

(***************************************************************************)
(* SolveSpec: ODE.solve on one trajectory.                                 *)
(***************************************************************************)
\* The loop never ends for h <= 0 and tf > 0: the model stops such a run
\* after MaxIter iterations.  A run with h > 0 is not cut.
MaxIter == 3

Ariths == {"binary64", "exact"}

\* Form values as decimals <<numerator, denominator>>; Empty is a field left
\* empty or invalid, which Dash sends as None.
Empty == <<0, 0>>

Field(ar, p) == IF p = Empty THEN None ELSE Lit(ar, p)

SolveHs == {<<1, 10>>, <<1, 2>>, <<0, 1>>, <<-1, 2>>, Empty}

SolveX0s == {<<1, 1>>, <<-5, 2>>}

SolveTfs == {<<0, 1>>, <<1, 5>>, <<3, 10>>}

\* The calls of ODE.solve explored, <<f, method, h, x0, tf>>: every
\* combination of the sets above, and the worked example of the
\* specification (h = 0.1, x0 = 1, tf = 1) for the right-hand sides the
\* model computes.
SolveInputs ==
    (ODEChoices \X Methods \X SolveHs \X SolveX0s \X SolveTfs)
    \cup ({"B", "C"} \X {"Forward Euler", "Backward Euler"}
              \X {<<1, 10>>} \X {<<1, 1>>} \X {<<1, 1>>})

\* class Trajectory, __init__ (the random colour is not modelled).
Trajectory(id, h, x0, method) ==
    [id |-> id, h |-> h, x0 |-> x0, method |-> method, t |-> <<>>, x |-> <<>>]

(***************************************************************************)
(* The session: the process-wide object ode of app.py, the page, and the   *)
(* callbacks Dash runs for each user event.                                *)
(***************************************************************************)
\* ode.f before any ODE is chosen; a dropdown that was cleared.
NoF == "None"

NoMethod == "None"

Cleared == "None"

\* The bound of 'if ode.n < 6' in both add_trajectory callbacks.
Capacity == 6

\* value=5 of the slider in the layout.
SliderInit == <<5, 1>>

Callbacks ==
    {"choose_ode", "add_trajectory_message", "add_trajectory",
     "delete_trajectory", "update_figure"}

\* A user event: its kind, the form values it carries, the index of the
\* delete button clicked, the count when it happened, and whether the calls
\* that follow a new layout of the delete buttons have started.
Event(kind, h, x0, method, index, n0) ==
    [kind |-> kind, h |-> h, x0 |-> x0, method |-> method, index |-> index,
     n0 |-> n0, follow |-> FALSE]

\* ODE.__init__ and the layout: the first load of the page, when Dash calls
\* every callback once with nothing triggered.
PageFresh ==
    /\ message = "None"
    /\ choice = ""
    /\ slider = SliderInit
    /\ event = Event("load", Empty, Empty, NoMethod, 0, 0)
    /\ pending = Callbacks
    /\ rerender = FALSE
    /\ stored = FALSE

SolveInit ==
    /\ arith \in Ariths
    /\ \E c \in SolveInputs :
          /\ f = c[1]
          /\ trajectory = Trajectory(0, Field(arith, c[3]), Lit(arith, c[4]), c[2])
          /\ tf = Lit(arith, c[5])
    /\ t = None
    /\ xi = None
    /\ x_ls = <<>>
    /\ pc = "solve"
    /\ n = 0
    /\ trajectories = <<>>
    /\ fig = 0
    /\ PageFresh

\* Lines 39-41.
SolveEnter ==
    /\ pc = "solve"
    /\ t' = QInt(0)
    /\ xi' = trajectory.x0
    /\ x_ls' = <<trajectory.x0>>
    /\ pc' = "while"
    /\ UNCHANGED <<arith, f, trajectory, tf>>
    /\ UNCHANGED sessionVars

\* Lines 42-52, one iteration: the test t < tf holds.  With h None every
\* method raises TypeError at its first use of h, before x_ls is appended to.
SolveIterate ==
    /\ pc = "while"
    /\ QLess(t, tf)
    /\ IF trajectory.h = None
       THEN /\ pc' = "raised"
            /\ UNCHANGED <<t, xi, x_ls>>
       ELSE /\ QSign(trajectory.h) > 0 \/ Len(x_ls) <= MaxIter
            /\ \E v \in StepResults(arith, trajectory.method, t, trajectory.h, xi, f) :
                 /\ xi' = v
                 /\ x_ls' = Append(x_ls, v)
            /\ t' = VAdd(arith, t, trajectory.h)
            /\ pc' = "while"
    /\ UNCHANGED <<arith, f, trajectory, tf>>
    /\ UNCHANGED sessionVars

\* Lines 53-54: the test t < tf fails.  t + h raises TypeError for h None,
\* and np.arange raises for a step of 0.
SolveReturn ==
    /\ pc = "while"
    /\ ~QLess(t, tf)
    /\ IF trajectory.h = None \/ QSign(trajectory.h) = 0
       THEN /\ pc' = "raised"
            /\ UNCHANGED trajectory
       ELSE /\ trajectory' =
                 [trajectory EXCEPT
                    !.t = Arange(arith, VAdd(arith, t, trajectory.h), trajectory.h),
                    !.x = x_ls]
            /\ pc' = "done"
    /\ UNCHANGED <<arith, f, tf, t, xi, x_ls>>
    /\ UNCHANGED sessionVars

SolveNext == SolveEnter \/ SolveIterate \/ SolveReturn

SolveSpec == SolveInit /\ [][SolveNext]_vars
(***************************************************************************)
(* Spec and SpecCap: one session.  A user event triggers the callbacks     *)
(* that name the changed component among their Inputs; Dash sends one      *)
(* request per callback and the server answers them in any order, so the   *)
(* callbacks of an event run one at a time in any order.  A callback that  *)
(* raises keeps the changes it made to ode before raising and returns      *)
(* nothing to the page.                                                    *)
(*                                                                         *)
(* ODE.solve is taken here as a whole (SolveSpec has its steps): called    *)
(* with the values a form can send, h in [0.001, 1] or None, it raises     *)
(* TypeError for h None and otherwise assigns trajectory.t and             *)
(* trajectory.x, arrays determined by f, h, x0, method and tf; they are    *)
(* represented by the f and tf they were computed for.                     *)
(***************************************************************************)
SolveRaises(tr) == tr.h = Empty

Solution(nf, tfv) == <<[f |-> nf, tf |-> tfv]>>

solve(tr, nf, tfv) ==
    IF SolveRaises(tr) THEN tr
    ELSE [tr EXCEPT !.t = Solution(nf, tfv), !.x = Solution(nf, tfv)]

\* The position of the first trajectory whose solve raises, Len + 1 if none.
FirstRaising(trs) ==
    IF \A i \in 1..Len(trs) : ~SolveRaises(trs[i]) THEN Len(trs) + 1
    ELSE CHOOSE i \in 1..Len(trs) :
             SolveRaises(trs[i]) /\ \A j \in 1..(i - 1) : ~SolveRaises(trs[j])

\* ODE.update_trajectories: solve and re-stamp in list order, up to the
\* first solve that raises.
update_trajectories(trs, nf, tfv) ==
    [i \in 1..Len(trs) |->
        IF i < FirstRaising(trs) THEN [solve(trs[i], nf, tfv) EXCEPT !.id = i - 1]
        ELSE trs[i]]

Quiet == pending = {} /\ ~rerender

\* The page is loaded again: the layout's initial values, and every
\* callback called once with nothing triggered.  ode lives on in the server.
PageLoad ==
    /\ Quiet
    /\ message' = "None"
    /\ choice' = ""
    /\ slider' = SliderInit
    /\ event' = Event("load", Empty, Empty, NoMethod, 0, n)
    /\ pending' = Callbacks
    /\ stored' = FALSE
    /\ UNCHANGED <<f, n, trajectories, fig, rerender>>
    /\ UNCHANGED solveVars

\* The dropdown 'choose-ode' changes to c.
SelectOde(c) ==
    /\ Quiet
    /\ c # choice
    /\ c = Cleared => choice \in ODEChoices
    /\ choice' = c
    /\ event' = Event("select", Empty, Empty, NoMethod, 0, n)
    /\ pending' = {"choose_ode", "update_figure"}
    /\ stored' = FALSE
    /\ UNCHANGED <<f, n, trajectories, fig, message, slider, rerender>>
    /\ UNCHANGED solveVars

\* A click on Add with the form holding h, x0 and method.  maxLen bounds
\* the list: a click that can append is explored only below it.
ClickAdd(h, x0, method, maxLen) ==
    /\ Quiet
    /\ \/ Len(trajectories) < maxLen
       \/ f = NoF
       \/ method = NoMethod
       \/ n >= Capacity
    /\ event' = Event("add", h, x0, method, 0, n)
    /\ pending' = {"add_trajectory_message", "add_trajectory", "update_figure"}
    /\ stored' = FALSE
    /\ UNCHANGED <<f, n, trajectories, fig, message, choice, slider, rerender>>
    /\ UNCHANGED solveVars

\* A click on the Delete button of index i: create_div lays out the
\* buttons of range(ode.n).
ClickDelete(i) ==
    /\ Quiet
    /\ i \in 0..(n - 1)
    /\ event' = Event("delete", Empty, Empty, NoMethod, i, n)
    /\ pending' = {"delete_trajectory", "update_figure"}
    /\ stored' = FALSE
    /\ UNCHANGED <<f, n, trajectories, fig, message, choice, slider, rerender>>
    /\ UNCHANGED solveVars

\* The slider moves to v.
SetFinalTime(v) ==
    /\ Quiet
    /\ v # slider
    /\ slider' = v
    /\ event' = Event("slider", Empty, Empty, NoMethod, 0, n)
    /\ pending' = {"update_figure"}
    /\ stored' = FALSE
    /\ UNCHANGED <<f, n, trajectories, fig, message, choice, rerender>>
    /\ UNCHANGED solveVars

\* The delete buttons were laid out again: Dash calls the callbacks with
\* Input({"index": ALL, "type": "delete"}, 'n_clicks'), nothing triggered.
Rerender ==
    /\ pending = {}
    /\ rerender
    /\ event' = [event EXCEPT !.follow = TRUE]
    /\ pending' = {"delete_trajectory", "update_figure"}
    /\ rerender' = FALSE
    /\ UNCHANGED <<f, n, trajectories, fig, message, choice, slider, stored>>
    /\ UNCHANGED solveVars

Triggered(kind) == event.kind = kind /\ ~event.follow

\* A callback returned children for 'trajectory-container'.
Returned == rerender' = (rerender \/ ~event.follow)

\* A choose_ode that empties the list and forgets the counter.
choose_ode_keeps_count ==
    /\ "choose_ode" \in pending
    /\ pending' = pending \ {"choose_ode"}
    /\ IF Triggered("select")
       THEN /\ f' = IF choice \in ODEChoices THEN choice ELSE f
            /\ trajectories' = <<>>
            /\ UNCHANGED n
       ELSE UNCHANGED <<f, trajectories, n>>
    /\ Returned
    /\ UNCHANGED <<fig, message, choice, slider, event, stored>>
    /\ UNCHANGED solveVars

\* app.py, choose_ode.
choose_ode ==
    /\ "choose_ode" \in pending
    /\ pending' = pending \ {"choose_ode"}
    /\ IF Triggered("select")
       THEN /\ f' = IF choice \in ODEChoices THEN choice ELSE f
            /\ trajectories' = <<>>
            /\ n' = 0
       ELSE UNCHANGED <<f, trajectories, n>>
    /\ Returned
    /\ UNCHANGED <<fig, message, choice, slider, event, stored>>
    /\ UNCHANGED solveVars

\* app.py, the first add_trajectory: the message under the Add button.
add_trajectory_message ==
    /\ "add_trajectory_message" \in pending
    /\ pending' = pending \ {"add_trajectory_message"}
    /\ message' =
          IF ~Triggered("add") THEN "None"
          ELSE IF f = NoF THEN "First choose an ODE to solve!"
          ELSE IF event.method = NoMethod THEN "Choose a solving method!"
          ELSE IF n < Capacity THEN "Trajectory added!"
          ELSE "Max number of trajectories reached!"
    /\ UNCHANGED <<f, n, trajectories, fig, choice, slider, event, rerender, stored>>
    /\ UNCHANGED solveVars

\* app.py, the second add_trajectory, with ODE.add_trajectory: append,
\* solve, count.  When solve raises the trajectory stays appended, n is not
\* incremented and nothing is returned.
add_trajectory ==
    /\ "add_trajectory" \in pending
    /\ pending' = pending \ {"add_trajectory"}
    /\ IF Triggered("add") /\ f # NoF /\ event.method # NoMethod /\ n < Capacity
       THEN /\ trajectories' =
                 Append(trajectories,
                        solve(Trajectory(n, event.h, event.x0, event.method),
                              f, slider))
            /\ stored' = TRUE
            /\ IF SolveRaises(Trajectory(n, event.h, event.x0, event.method))
               THEN UNCHANGED <<n, rerender>>
               ELSE n' = n + 1 /\ Returned
       ELSE /\ UNCHANGED <<trajectories, n, stored>>
            /\ Returned
    /\ UNCHANGED <<f, fig, message, choice, slider, event>>
    /\ UNCHANGED solveVars

\* app.py, delete_trajectory: the clicked button has n_clicks 1.
delete_trajectory ==
    /\ "delete_trajectory" \in pending
    /\ pending' = pending \ {"delete_trajectory"}
    /\ IF Triggered("delete")
       THEN /\ trajectories' =
                 SubSeq(trajectories, 1, event.index)
                 \o SubSeq(trajectories, event.index + 2, Len(trajectories))
            /\ n' = n - 1
       ELSE UNCHANGED <<trajectories, n>>
    /\ Returned
    /\ UNCHANGED <<f, fig, message, choice, slider, event, stored>>
    /\ UNCHANGED solveVars

\* app.py, update_figure, with ODE.update_trajectories and
\* ODE.update_traces: the figure is rebuilt when every solve returned.
update_figure ==
    /\ "update_figure" \in pending
    /\ pending' = pending \ {"update_figure"}
    /\ IF choice # ""
       THEN /\ trajectories' = update_trajectories(trajectories, f, slider)
            /\ fig' = IF FirstRaising(trajectories) > Len(trajectories)
                      THEN Len(trajectories) ELSE fig
       ELSE UNCHANGED <<trajectories, fig>>
    /\ UNCHANGED <<f, n, message, choice, slider, event, rerender, stored>>
    /\ UNCHANGED solveVars

Init ==
    /\ f = NoF
    /\ n = 0
    /\ trajectories = <<>>
    /\ fig = 0
    /\ PageFresh
    /\ arith = "binary64"
    /\ trajectory = None
    /\ tf = None
    /\ t = None
    /\ xi = None
    /\ x_ls = <<>>
    /\ pc = "idle"

RunCallback ==
    \/ choose_ode
    \/ add_trajectory_message
    \/ add_trajectory
    \/ delete_trajectory
    \/ update_figure

\* Spec: every ODE, a valid and an empty timestep, a method chosen or not,
\* two final times; the list is explored up to MaxLen trajectories.
MaxLen == 2

Hs == {<<1, 10>>, Empty}

X0s == {<<1, 1>>}

FormMethods == {"Forward Euler", NoMethod}

Sliders == {SliderInit, <<0, 1>>}

Next ==
    \/ PageLoad
    \/ \E c \in ODEChoices \cup {Cleared} : SelectOde(c)
    \/ \E h \in Hs, x0 \in X0s, m \in FormMethods : ClickAdd(h, x0, m, MaxLen)
    \/ \E i \in 0..(Capacity - 1) : ClickDelete(i)
    \/ \E v \in Sliders : SetFinalTime(v)
    \/ Rerender
    \/ RunCallback

Spec == Init /\ [][Next]_vars

\* SpecCap: ODE B chosen once and clicks on Add, with a valid or an empty
\* timestep; the list is explored up to MaxLenCap trajectories, past the
\* capacity.
MaxLenCap == 7

NextCap ==
    \/ SelectOde("B")
    \/ \E h \in Hs : ClickAdd(h, <<1, 1>>, "Forward Euler", MaxLenCap)
    \/ Rerender
    \/ RunCallback

SpecCap == Init /\ [][NextCap]_vars

(***************************************************************************)
(* Properties of ODE.solve, checked under SolveSpec.                       *)
(***************************************************************************)
\* solve was called with a number h <= 0 and with tf > 0.
NonPositiveStep ==
    /\ pc # "idle"
    /\ IsNum(trajectory.h)
    /\ QSign(trajectory.h) <= 0
    /\ QSign(tf) > 0

\* C5: solve called with a step h <= 0 and tf > 0 fails with InvalidStep
\* before it integrates anything: the body of 'while t < tf' never runs, so
\* x_ls never grows beyond [x0].
C5_NonPositiveStepFailsFast == NonPositiveStep => Len(x_ls) <= 1

\* solve returned for a step h > 0 (tf >= 0 in every call explored).
SolvedForward ==
    /\ pc = "done"
    /\ IsNum(trajectory.h)
    /\ QSign(trajectory.h) > 0
    /\ QSign(tf) >= 0

\* The smallest k >= 0 with k*h >= tf, for h > 0 and tf >= 0.
GridSteps(h, tfv) == QCeil(QDivRaw(tfv, h))

\* C6: for h > 0 and tf >= 0 solve produces the times 0, h, ..., k*h with k
\* the smallest integer such that k*h >= tf, as many values as times
\* (k + 1), values[0] = x0, and one point only when tf = 0.
C6_UniformGrid ==
    SolvedForward =>
        /\ Len(trajectory.t) = GridSteps(trajectory.h, tf) + 1
        /\ Len(trajectory.x) = Len(trajectory.t)
        /\ trajectory.t = ArangeOf(arith, trajectory.h, Len(trajectory.t))
        /\ trajectory.x[1] = trajectory.x0
        /\ (QSign(tf) = 0 => Len(trajectory.x) = 1)

\* The worked example in exact arithmetic: f(t, x) = -x, Forward Euler,
\* h = 0.1, x0 = 1, tf = 1, after solve returned.
ExampleSolved ==
    /\ pc = "done"
    /\ arith = "exact"
    /\ f = "B"
    /\ trajectory.method = "Forward Euler"
    /\ trajectory.h = Lit("exact", <<1, 10>>)
    /\ trajectory.x0 = Lit("exact", <<1, 1>>)
    /\ tf = Lit("exact", <<1, 1>>)

\* values[1] = 0.9, values[2] = 0.81 and each value is 0.9 times the one
\* before it (Python indices; the sequence x starts at 1).
ExampleDecay ==
    /\ trajectory.x[2] = Lit("exact", <<9, 10>>)
    /\ trajectory.x[3] = Lit("exact", <<81, 100>>)
    /\ \A i \in 1..(Len(trajectory.x) - 1) :
           trajectory.x[i + 1] =
               VMul("exact", Lit("exact", <<9, 10>>), trajectory.x[i])

\* C7 (as amended): in exact arithmetic the example trajectory has
\* values[1] = 0.9, values[2] = 0.81, each value 0.9 times the previous
\* one, and 11 points in total, one for each of t = 0, 0.1, ..., 1.0.
C7_ExampleElevenPoints ==
    ExampleSolved =>
        /\ ExampleDecay
        /\ Len(trajectory.x) = 11
        /\ Len(trajectory.t) = 11

\* C7 (as stated): the same example has values[1] = 0.9, values[2] = 0.81,
\* each value 0.9 times the previous one, and 10 points in total.
C7_ExampleTenPoints ==
    ExampleSolved => (ExampleDecay /\ Len(trajectory.x) = 10)

\* The example was solved and its values decay by 0.9 down to 0.9^10.
C7_ExampleReached ==
    /\ ExampleSolved
    /\ Len(trajectory.x) = 11
    /\ trajectory.x[11] # trajectory.x[10]

\* C8: the last iterate of a root solve that did not converge is never
\* returned by a Backward Euler step into xi, nor appended to the values of
\* a trajectory.
C8_UnconvergedNeverUsed ==
    /\ xi # Unconverged
    /\ \A i \in 1..Len(x_ls) : x_ls[i] # Unconverged

(***************************************************************************)
(* Properties of the session, checked under Spec and SpecCap.              *)
(***************************************************************************)
\* C1: in every reachable state the counter ode.n equals the number of
\* trajectories in ode.trajectories.
C1_CountIsLength == n = Len(trajectories)

\* C2: at every instant no two trajectories of the registry have the same
\* id.
C2_DistinctIds ==
    \A i, j \in 1..Len(trajectories) :
        i # j => trajectories[i].id # trajectories[j].id

\* Every callback of a click on Delete has run, those that Dash calls for
\* the new layout of the buttons included.
DeleteCompleted == event.kind = "delete" /\ Quiet

\* C3: when a delete action completes, the ids of the remaining
\* trajectories are 0..count-1 in list order and the count is one less than
\* when Delete was clicked.
C3_DeleteRenumbers ==
    DeleteCompleted =>
        /\ n = event.n0 - 1
        /\ Len(trajectories) = n
        /\ \A i \in 1..Len(trajectories) : trajectories[i].id = i - 1

\* Both add callbacks of a click on Add have run.
AddAnswered ==
    /\ event.kind = "add"
    /\ "add_trajectory_message" \notin pending
    /\ "add_trajectory" \notin pending

\* C4: the registry never holds more than Capacity trajectories, and a
\* click on Add made while the count is at least Capacity stores nothing,
\* leaves the count as it was and reports 'Max number of trajectories
\* reached!'.
C4_CapacityRespected ==
    /\ Len(trajectories) <= Capacity
    /\ (AddAnswered /\ event.n0 >= Capacity) =>
           /\ ~stored
           /\ n = event.n0
           /\ message = "Max number of trajectories reached!"

\* The callback choose_ode of a selection of one of the labels A..E has
\* run.
SelectHandled ==
    /\ event.kind = "select"
    /\ choice \in ODEChoices
    /\ "choose_ode" \notin pending

\* C9: once choose_ode has handled the selection of a label A..E, and until
\* the next user event, the registry is empty, the count is 0 and ode.f is
\* the right-hand side of that label, whatever the registry held before.
C9_SelectClearsRegistry ==
    SelectHandled => (trajectories = <<>> /\ n = 0 /\ f = choice)

\* A selection was handled that found trajectories counted in the registry.
C9_SelectFoundTrajectories == SelectHandled /\ event.n0 > 0

\* C10: once both add callbacks of a click have run, 'Trajectory added!' is
\* shown if and only if the click stored a trajectory, and 'Max number of
\* trajectories reached!' is shown only if it stored nothing.
C10_MessageAgreesWithStore ==
    AddAnswered =>
        /\ (message = "Trajectory added!") <=> stored
        /\ (message = "Max number of trajectories reached!") => ~stored
=============================================================================
